---- MODULE Spec2Model ----
(***************************************************************************)
(* Model of librepcb-parts-generator: the UUID cache of the generator      *)
(* scripts (generate_led.py, generate_connectors.py) and the Package /     *)
(* Footprint entity tree with its textual rendering (entities/package.py). *)
(*                                                                         *)
(* Text is modelled as data: a Python str that is used as a cache key is a *)
(* sequence of one-character strings; a rendered document is a sequence of *)
(* lines, each line a record [indent, text] whose text is a tuple of       *)
(* tokens.  Identifiers (canonical uuid strings, all of the same length    *)
(* and alphabet) are natural numbers, ordered as the strings are.          *)
(***************************************************************************)
EXTENDS Integers, Sequences, FiniteSets, TLC

VARIABLES
    cache_file,   \* uuid_cache_led.csv on disk: key -> Identifier
    uuid_cache,   \* the module-level dict of the running process
    pc,           \* position of the process in __main__
    cfg,          \* index of the config the running loop is at
    next_id,      \* number of distinct values uuid4 has produced so far, plus 1
    collisions,   \* number of uuid4 draws that repeated an Identifier of the cache
    loaded,       \* history: what init_cache read in the current run
    returned,     \* history: key -> Identifier returned by uuid() in the current run
    calls,        \* history: the uuid() calls of the last step, in order
    out,          \* the output directory: path -> document
    written,      \* history: documents written by the current run, in order
    nloads,       \* history: init_cache calls of the current run
    nsaves,       \* history: save_cache calls of the current run
    past,         \* history: one record per finished (done or aborted) run
    env,          \* what the environment may do: "faults" (I/O calls may
                  \* raise) or "repeats" (uuid4 may repeat an Identifier)
    tree,         \* a Package object a caller is building
    phase,        \* "building", or "rendered" once str(tree) was taken
    rendered,     \* the text str(tree) returned
    adds,         \* number of add_* calls made on the tree
    fn_pc,        \* "idle", "input" (arguments chosen) or "applied"
    fn_in,        \* the arguments a function is applied to
    fn_out        \* what it returned

cacheVars == <<cache_file, uuid_cache, pc, cfg, next_id, collisions, loaded,
               returned, calls, out, written, nloads, nsaves, past, env>>

treeVars == <<tree, phase, rendered, adds>>

fnVars == <<fn_pc, fn_in, fn_out>>

vars == <<cacheVars, treeVars, fnVars>>

----------------------------------------------------------------------------
(* Bounds *)

\* process runs against the same cache file
MaxRuns == 2

\* how many of the configs of __main__ a run generates
NumConfigs == 2

\* add_* calls made on one Package tree
MaxAdds == 4

\* distinct Identifiers the children of a tree are drawn from
MaxUuid == 2

----------------------------------------------------------------------------
(* Strings *)

\* str.lower() on the alphabet the keys are built from
LowerOf ==
    ("L" :> "l") @@ ("E" :> "e") @@ ("D" :> "d") @@ ("S" :> "s") @@
    ("P" :> "p") @@ ("A" :> "a") @@ ("C" :> "c")

lower(s) ==
    [i \in 1..Len(s) |-> IF s[i] \in DOMAIN LowerOf THEN LowerOf[s[i]] ELSE s[i]]

\* str.replace(old, new) for one-character old and new
replace(s, old, new) ==
    [i \in 1..Len(s) |-> IF s[i] = old THEN new ELSE s[i]]

\* '{}-{}-{}'.format(a, b, c)
format3(a, b, c) == a \o <<"-">> \o b \o <<"-">> \o c

\* code point order on the alphabet of names and approval strings
Ord == ("a" :> 1) @@ ("b" :> 2) @@ ("c" :> 3)

\* str.__lt__: lexicographic by code point, a proper prefix is smaller
str_lt(s, t) ==
    \E i \in 1..(Len(t)) :
        /\ \A j \in 1..(i - 1) : j <= Len(s) /\ s[j] = t[j]
        /\ \/ i = Len(s) + 1
           \/ i <= Len(s) /\ Ord[s[i]] < Ord[t[i]]

----------------------------------------------------------------------------
(* Entities of entities/package.py, as records *)

\* Package3DModel.__eq__
Package3DModel__eq__(self, other) ==
    self.uuid = other.uuid /\ self.name = other.name

\* Package3DModel.__lt__ comparing the names first
Package3DModel__lt__name_first(self, other) ==
    IF self.name = other.name
    THEN self.uuid < other.uuid
    ELSE str_lt(self.name, other.name)

\* Package3DModel.__lt__
Package3DModel__lt__(self, other) ==
    IF self.uuid = other.uuid
    THEN str_lt(self.name, other.name)
    ELSE self.uuid < other.uuid

\* Footprint3DModel.__eq__
Footprint3DModel__eq__(self, other) == self.uuid = other.uuid

\* Footprint3DModel.__lt__
Footprint3DModel__lt__(self, other) == self.uuid < other.uuid

\* x < y, dispatched on the class of the operands
lt(cls, x, y) ==
    CASE cls = "Package3DModel" -> Package3DModel__lt__(x, y)
      [] cls = "Footprint3DModel" -> Footprint3DModel__lt__(x, y)
      [] cls = "str" -> str_lt(x, y)

----------------------------------------------------------------------------
(* Lists *)

\* the element of a one-element set (used to evaluate an expression once)
Only(S) == CHOOSE x \in S : TRUE

\* ''.join(parts), each part a sequence of lines
Join(parts) ==
    Only({ LET f[i \in 0..Len(ps)] == IF i = 0 THEN <<>> ELSE f[i - 1] \o ps[i]
           IN  f[Len(ps)]
           : ps \in {parts \o <<>>} })

\* sorted(list) for a list of objects of class cls: Python's stable sort,
\* which only asks x < y of the elements.  An element goes in front of the
\* first one it is smaller than, and behind everything else before it.
insort(cls, s, x) ==
    LET smaller == {i \in 1..Len(s) : lt(cls, x, s[i])}
        pos == IF smaller = {} THEN Len(s) + 1
               ELSE CHOOSE i \in smaller : \A j \in smaller : i <= j
    IN  SubSeq(s, 1, pos - 1) \o <<x>> \o SubSeq(s, pos, Len(s))

sorted(cls, list) ==
    LET f[i \in 0..Len(list)] ==
            IF i = 0 THEN <<>> ELSE insort(cls, f[i - 1], list[i])
    IN  f[Len(list)]

----------------------------------------------------------------------------
(* Rendering.  A rendered entity is a sequence of lines; a line is a tuple   *)
(* <<indent, tag, field, ...>>.                                             *)

\* entities/helper.py indent_entities: every line of every entity one level
\* deeper, the entities in the order given, nothing for an empty list
indent_entities(entities) ==
    Only({ [j \in 1..Len(lines) |-> <<lines[j][1] + 1>> \o Tail(lines[j])] \o <<>>
           : lines \in {Join(entities)} })

\* Package3DModel.__str__
Package3DModel__str__(self) == << <<0, "3d_model", self.uuid, self.name>> >>

\* Footprint3DModel.__str__
Footprint3DModel__str__(self) == << <<0, "3d_model", self.uuid>> >>

\* PackagePad.__str__
PackagePad__str__(self) == << <<0, "pad", self.uuid, self.name>> >>

\* entities/common.py Vertex.__str__
Vertex__str__(self) == << <<0, "vertex", self.position, self.angle>> >>

\* entities/common.py Polygon.__str__
Polygon__str__(self) ==
    << <<0, "polygon", self.uuid>> >>
    \o indent_entities([i \in 1..Len(self.vertices) |-> Vertex__str__(self.vertices[i])])
    \o << <<0, ")">> >>

\* entities/common.py Circle.__str__
Circle__str__(self) == << <<0, "circle", self.uuid>> >>

\* StrokeText.__str__
StrokeText__str__(self) ==
    << <<0, "stroke_text", self.uuid>>, <<1, "value", self.value>>, <<0, ")">> >>

\* PadHole.__str__ emitting the vertices last to first
PadHole__str__reversed(self) ==
    << <<0, "hole", self.uuid>> >>
    \o indent_entities([i \in 1..Len(self.vertices) |->
                          Vertex__str__(self.vertices[Len(self.vertices) + 1 - i])])
    \o << <<0, ")">> >>

\* PadHole.__str__
PadHole__str__(self) ==
    << <<0, "hole", self.uuid>> >>
    \o indent_entities([i \in 1..Len(self.vertices) |-> Vertex__str__(self.vertices[i])])
    \o << <<0, ")">> >>

\* FootprintPad.__str__
FootprintPad__str__(self) ==
    << <<0, "pad", self.uuid>>,
       <<1, "position", self.position>>,
       <<1, "package_pad", self.package_pad>> >>
    \o indent_entities([i \in 1..Len(self.holes) |-> PadHole__str__(self.holes[i])])
    \o << <<0, ")">> >>

\* Footprint.__str__ emitting the pads before the 3D models
Footprint__str__pads_first(self) ==
    << <<0, "footprint", self.uuid>>,
       <<1, "name", self.name>>,
       <<1, "description", self.description>>,
       <<1, "3d_position", "3d_rotation">> >>
    \o indent_entities([i \in 1..Len(self.pads) |-> FootprintPad__str__(self.pads[i])])
    \o indent_entities(
         LET ms == sorted("Footprint3DModel", self.models_3d)
         IN  [i \in 1..Len(ms) |-> Footprint3DModel__str__(ms[i])])
    \o indent_entities([i \in 1..Len(self.polygons) |-> Polygon__str__(self.polygons[i])])
    \o indent_entities([i \in 1..Len(self.circles) |-> Circle__str__(self.circles[i])])
    \o indent_entities([i \in 1..Len(self.texts) |-> StrokeText__str__(self.texts[i])])
    \o << <<0, ")">> >>

\* Footprint.__str__ without sorted() around models_3d
Footprint__str__unsorted(self) ==
    << <<0, "footprint", self.uuid>>,
       <<1, "name", self.name>>,
       <<1, "description", self.description>>,
       <<1, "3d_position", "3d_rotation">> >>
    \o indent_entities(
         LET ms == self.models_3d
         IN  [i \in 1..Len(ms) |-> Footprint3DModel__str__(ms[i])])
    \o indent_entities([i \in 1..Len(self.pads) |-> FootprintPad__str__(self.pads[i])])
    \o indent_entities([i \in 1..Len(self.polygons) |-> Polygon__str__(self.polygons[i])])
    \o indent_entities([i \in 1..Len(self.circles) |-> Circle__str__(self.circles[i])])
    \o indent_entities([i \in 1..Len(self.texts) |-> StrokeText__str__(self.texts[i])])
    \o << <<0, ")">> >>

\* Footprint.__str__
Footprint__str__(self) ==
    << <<0, "footprint", self.uuid>>,
       <<1, "name", self.name>>,
       <<1, "description", self.description>>,
       <<1, "3d_position", "3d_rotation">> >>
    \o indent_entities(
         LET ms == sorted("Footprint3DModel", self.models_3d)
         IN  [i \in 1..Len(ms) |-> Footprint3DModel__str__(ms[i])])
    \o indent_entities([i \in 1..Len(self.pads) |-> FootprintPad__str__(self.pads[i])])
    \o indent_entities([i \in 1..Len(self.polygons) |-> Polygon__str__(self.polygons[i])])
    \o indent_entities([i \in 1..Len(self.circles) |-> Circle__str__(self.circles[i])])
    \o indent_entities([i \in 1..Len(self.texts) |-> StrokeText__str__(self.texts[i])])
    \o << <<0, ")">> >>

\* str(approval): a plain string child is one line
str__str__(self) == << <<0, "str", self>> >>

\* Package.__str__ without sorted() around approvals
Package__str__approvals_unsorted(self) ==
    << <<0, "librepcb_package", self.uuid>>,
       <<1, "name", self.name>>,
       <<1, "description", self.description>>,
       <<1, "keywords", self.keywords>>,
       <<1, "author", self.author>>,
       <<1, "version", self.version>>,
       <<1, "created", self.created>>,
       <<1, "deprecated", self.deprecated>>,
       <<1, "generated_by", self.generated_by>> >>
    \o [i \in 1..Len(self.categories) |-> <<1, "category", self.categories[i]>>]
    \o << <<1, "assembly_type", self.assembly_type>> >>
    \o indent_entities([i \in 1..Len(self.pads) |-> PackagePad__str__(self.pads[i])])
    \o indent_entities(
         [i \in 1..Len(self.models_3d) |-> Package3DModel__str__(self.models_3d[i])])
    \o indent_entities(
         [i \in 1..Len(self.footprints) |-> Footprint__str__(self.footprints[i])])
    \o indent_entities(
         LET as == self.approvals
         IN  [i \in 1..Len(as) |-> str__str__(as[i])])
    \o << <<0, ")">> >>

\* Package.__str__
Package__str__(self) ==
    << <<0, "librepcb_package", self.uuid>>,
       <<1, "name", self.name>>,
       <<1, "description", self.description>>,
       <<1, "keywords", self.keywords>>,
       <<1, "author", self.author>>,
       <<1, "version", self.version>>,
       <<1, "created", self.created>>,
       <<1, "deprecated", self.deprecated>>,
       <<1, "generated_by", self.generated_by>> >>
    \o [i \in 1..Len(self.categories) |-> <<1, "category", self.categories[i]>>]
    \o << <<1, "assembly_type", self.assembly_type>> >>
    \o indent_entities([i \in 1..Len(self.pads) |-> PackagePad__str__(self.pads[i])])
    \o indent_entities(
         [i \in 1..Len(self.models_3d) |-> Package3DModel__str__(self.models_3d[i])])
    \o indent_entities(
         [i \in 1..Len(self.footprints) |-> Footprint__str__(self.footprints[i])])
    \o indent_entities(
         LET as == sorted("str", self.approvals)
         IN  [i \in 1..Len(as) |-> str__str__(as[i])])
    \o << <<0, ")">> >>

----------------------------------------------------------------------------
(* generate_led.py: the UUID cache *)

Range(f) == {f[k] : k \in DOMAIN f}

\* the key without .lower()
uuid_key__case_kept(category, full_name, identifier) ==
    replace(format3(category, full_name, identifier), " ", "~")

\* the key uuid() builds from its arguments
uuid_key(category, full_name, identifier) ==
    replace(lower(format3(category, full_name, identifier)), " ", "~")

\* uuid() without the assignment into the cache on a miss
uuid__not_stored(cache, category, full_name, identifier, uuid4) ==
    LET key == uuid_key(category, full_name, identifier)
        miss == key \notin DOMAIN cache
    IN  [cache |-> cache, value |-> IF miss THEN uuid4 ELSE cache[key],
         minted |-> miss]

\* uuid() without the test "key not in uuid_cache": every call mints
uuid__always_mints(cache, category, full_name, identifier, uuid4) ==
    LET key == uuid_key(category, full_name, identifier)
        after == [k \in DOMAIN cache \cup {key} |->
                    IF k = key THEN uuid4 ELSE cache[k]]
    IN  [cache |-> after, value |-> uuid4, minted |-> TRUE]

\* uuid() with the new value computed once and then reused for every miss
uuid__one_value(cache, category, full_name, identifier, uuid4) ==
    LET key == uuid_key(category, full_name, identifier)
        miss == key \notin DOMAIN cache
        new == IF cache = <<>> THEN uuid4
               ELSE CHOOSE v \in Range(cache) : \A w \in Range(cache) : v <= w
        after == IF miss THEN cache @@ (key :> new) ELSE cache
    IN  [cache |-> after, value |-> after[key], minted |-> miss]

\* uuid(): the cache after the call, the value returned, and whether uuid4
\* was called; uuid4 is what str(uuid4()) yields if it is called
uuid(cache, category, full_name, identifier, uuid4) ==
    LET key == uuid_key(category, full_name, identifier)
        miss == key \notin DOMAIN cache
        after == IF miss THEN cache @@ (key :> uuid4) ELSE cache
    IN  [cache |-> after, value |-> after[key], minted |-> miss]

\* The state a generation step threads through its uuid() calls: the cache,
\* the values uuid4 is going to return, how many of them were used, and the
\* calls made so far.
Start(cache, draws) ==
    [cache |-> cache, draws |-> draws, mints |-> 0, calls |-> <<>>, value |-> 0]

\* one call of uuid() in state st; draw is what uuid4 yields if it is called
Call(s, category, full_name, identifier, draw) ==
    Only({ [cache |-> r.cache,
            draws |-> s.draws,
            mints |-> IF r.minted THEN s.mints + 1 ELSE s.mints,
            calls |-> Append(s.calls,
                        [key |-> uuid_key(category, full_name, identifier),
                         before |-> s.cache, after |-> r.cache,
                         value |-> r.value, minted |-> r.minted, uuid4 |-> draw]),
            value |-> r.value]
         : r \in {uuid(s.cache, category, full_name, identifier, draw)} })

Resolve(st, category, full_name, identifier) ==
    Only({ Call(s, category, full_name, identifier,
                IF s.mints < Len(s.draws) THEN s.draws[s.mints + 1] ELSE 0)
         : s \in {st} })

----------------------------------------------------------------------------
(* generate_led.py: the configs and the two generators *)

\* the configs of __main__, in order; the names stand for what LedConfig
\* formats (pkg_name upper case with dashes, dev_name with spaces)
Configs ==
    << [top_diameter |-> 3, pkg_name |-> <<"L","E","D","-","3">>,
        dev_name |-> <<"L","E","D"," ","3">>],
       [top_diameter |-> 3, pkg_name |-> <<"L","E","D","-","3","S">>,
        dev_name |-> <<"L","E","D"," ","3","+">>],
       [top_diameter |-> 5, pkg_name |-> <<"L","E","D","-","5">>,
        dev_name |-> <<"L","E","D"," ","5">>],
       [top_diameter |-> 5, pkg_name |-> <<"L","E","D","-","5","S">>,
        dev_name |-> <<"L","E","D"," ","5","+">>] >>

s_pkg == <<"p","k","g">>
s_dev == <<"d","e","v">>
s_pad_a == <<"p","a","d","-","a">>
s_pad_c == <<"p","a","d","-","c">>
s_footprint == <<"f","o","o","t","p","r","i","n","t">>

\* the footprints generate_pkg adds for a config, in order: name and
\* identifier_suffix
Variants(config) ==
    LET is_small == config.top_diameter < 5
    IN  << [name |-> "Vertical", suffix |-> <<>>] >>
        \o (IF ~is_small
            THEN << [name |-> "Vertical, Large Pads",
                     suffix |-> <<"-","l","a","r","g","e">>] >>
            ELSE <<>>)
        \o << [name |-> "Horizontal, 0.5 mm Offset", suffix |-> <<"-","h","0","5","0">>],
              [name |-> "Horizontal, 2.54 mm Offset", suffix |-> <<"-","h","2","5","4">>],
              [name |-> "Horizontal, 7.62 mm Offset", suffix |-> <<"-","h","7","6","2">>] >>

\* Footprint(uuid, name, ...)
Footprint(id, name) ==
    [uuid |-> id, name |-> name, description |-> "",
     pads |-> <<>>, models_3d |-> <<>>, polygons |-> <<>>, circles |-> <<>>,
     texts |-> <<>>]

\* Package(uuid, name, ...)
Package(id, name, author, version, created, category) ==
    [uuid |-> id, name |-> name, description |-> "", keywords |-> "",
     author |-> author, version |-> version, created |-> created,
     deprecated |-> FALSE, generated_by |-> "", categories |-> <<category>>,
     assembly_type |-> "auto",
     pads |-> <<>>, models_3d |-> <<>>, footprints |-> <<>>, approvals |-> <<>>]

\* _add_footprint resolving its pads under keys of the footprint variant
_add_footprint__own_pad_keys(r, config, variant) ==
    Only({ LET s1 == Resolve(r0.st, s_pkg, config.pkg_name,
                             s_footprint \o variant.suffix)
               s2 == Resolve(s1, s_pkg, config.pkg_name, s_pad_a \o variant.suffix)
               s3 == Resolve(s2, s_pkg, config.pkg_name, s_pad_c \o variant.suffix)
               pad(u, factor) ==
                   [uuid |-> u, position |-> factor, package_pad |-> u,
                    holes |-> << [uuid |-> u,
                                  vertices |-> << [position |-> 0, angle |-> 0] >>] >>]
               footprint == [Footprint(s1.value, variant.name) EXCEPT
                               !.pads = << pad(s2.value, 1), pad(s3.value, -1) >>]
           IN  [st |-> s3,
                package |-> [r0.package EXCEPT !.footprints = Append(@, footprint)]]
         : r0 \in {r} })

\* generate_pkg._add_footprint: the footprint with its two pads, appended to
\* the package.  r is [st, package].
\* (_add_vertical_footprint and _add_horizontal_footprint go on to add the
\* polygons, circles and texts of the variant, with Identifiers from the same
\* uuid(); the geometry is left out.)
_add_footprint(r, config, variant) ==
    Only({ LET s1 == Resolve(r0.st, s_pkg, config.pkg_name,
                             s_footprint \o variant.suffix)
               s2 == Resolve(s1, s_pkg, config.pkg_name, s_pad_a)
               s3 == Resolve(s2, s_pkg, config.pkg_name, s_pad_c)
               pad(u, factor) ==
                   [uuid |-> u, position |-> factor, package_pad |-> u,
                    holes |-> << [uuid |-> u,
                                  vertices |-> << [position |-> 0, angle |-> 0] >>] >>]
               footprint == [Footprint(s1.value, variant.name) EXCEPT
                               !.pads = << pad(s2.value, 1), pad(s3.value, -1) >>]
           IN  [st |-> s3,
                package |-> [r0.package EXCEPT !.footprints = Append(@, footprint)]]
         : r0 \in {r} })

\* the body of generate_pkg's loop for one config, up to serialize
generate_pkg(st, config) ==
    Only({ LET s1 == Resolve(s0, s_pkg, config.pkg_name, s_pkg)
               s2 == Resolve(s1, s_pkg, config.pkg_name, s_pad_a)
               s3 == Resolve(s2, s_pkg, config.pkg_name, s_pad_c)
               package == [Package(s1.value, config.pkg_name, "Danilo B.", "0.1",
                                   "2022-02-26T00:06:03Z", "pkgcat") EXCEPT
                             !.pads = << [uuid |-> s2.value, name |-> <<"A">>],
                                         [uuid |-> s3.value, name |-> <<"C">>] >>]
               variants == Variants(config)
               f[i \in 0..Len(variants)] ==
                   IF i = 0 THEN [st |-> s3, package |-> package]
                   ELSE _add_footprint(f[i - 1], config, variants[i])
           IN  f[Len(variants)]
         : s0 \in {st} })

\* generate_dev resolving the package and its pads under the device's name
generate_dev__own_keys(st, config) ==
    Only({ LET s1 == Resolve(s0, s_dev, config.dev_name, s_dev)
               s2 == Resolve(s1, s_pkg, config.dev_name, s_pkg)
               s3 == Resolve(s2, s_pkg, config.dev_name, s_pad_a)
               s4 == Resolve(s3, s_pkg, config.dev_name, s_pad_c)
           IN  [st |-> s4,
                device |-> [uuid |-> s1.value, name |-> config.dev_name,
                            package_uuid |-> s2.value,
                            pads |-> << [pad_uuid |-> s3.value, signal |-> "A"],
                                        [pad_uuid |-> s4.value, signal |-> "C"] >>]]
         : s0 \in {st} })

\* the body of generate_dev's loop for one config, up to serialize
generate_dev(st, config) ==
    Only({ LET s1 == Resolve(s0, s_dev, config.dev_name, s_dev)
               s2 == Resolve(s1, s_pkg, config.pkg_name, s_pkg)
               s3 == Resolve(s2, s_pkg, config.pkg_name, s_pad_a)
               s4 == Resolve(s3, s_pkg, config.pkg_name, s_pad_c)
           IN  [st |-> s4,
                device |-> [uuid |-> s1.value, name |-> config.dev_name,
                            package_uuid |-> s2.value,
                            pads |-> << [pad_uuid |-> s3.value, signal |-> "A"],
                                        [pad_uuid |-> s4.value, signal |-> "C"] >>]]
         : s0 \in {st} })

\* entities/device.py Device.__str__
Device__str__(self) ==
    << <<0, "librepcb_device", self.uuid>>,
       <<1, "name", self.name>>,
       <<1, "package", self.package_uuid>> >>
    \o indent_entities([i \in 1..Len(self.pads) |->
                          << <<0, "pad", self.pads[i].pad_uuid, self.pads[i].signal>> >>])
    \o << <<0, ")">> >>

----------------------------------------------------------------------------
(* uuid4 *)

Failures == {"none", "makedirs", "marker", "open", "write"}

\* A plan says, for each uuid4 call of a step, whether it yields a value never
\* produced before (0) or repeats a given Identifier: the plan without a
\* repeat and, if repeat, the plans with one repeat among the Identifiers ids.
Plans(m, repeat, ids) ==
    {[j \in 1..m |-> 0]}
    \cup (IF repeat
          THEN {[j \in 1..m |-> IF j = k THEN v ELSE 0] : k \in 1..m, v \in ids}
          ELSE {})

\* the values uuid4 yields under a plan, next being the first unused value
Draws(plan, next) ==
    [j \in 1..Len(plan) |->
        IF plan[j] # 0 THEN plan[j]
        ELSE next + Cardinality({i \in 1..(j - 1) : plan[i] = 0})]

Repeats(plan) == Cardinality({j \in 1..Len(plan) : plan[j] # 0})

\* a repeat is a collision with an Identifier the cache holds at that moment
Colliding(plan, cache, next) ==
    \A j \in 1..Len(plan) :
        plan[j] # 0 =>
            plan[j] \in Range(cache) \cup {Draws(plan, next)[i] : i \in 1..(j - 1)}

\* The plans of a step that makes m uuid4 calls.  uuid4 draws 122 random
\* bits: a repeat is possible and nothing in uuid() looks for one.  The model
\* lets it happen at most once in a behaviour, and only in the environment
\* that is about it.
StepPlans(m) ==
    {p \in Plans(m, env = "repeats" /\ collisions = 0,
                 Range(uuid_cache) \cup next_id..(next_id + m - 1)) :
        Colliding(p, uuid_cache, next_id)}

\* the I/O calls of a serialize that may raise in the environment
StepFailures == IF env = "faults" THEN Failures ELSE {"none"}

----------------------------------------------------------------------------
(* The output directory *)

NoFile == [status |-> "absent", text |-> <<>>]

\* Package.serialize (and entities/device.py Device.serialize): the directory
\* the call leaves behind.  fail is the I/O call that raises, "none" if none
\* does; cut is the number of lines that reached the file when write raises.
serialize(dir, path, text, fail, cut) ==
    LET made == IF path \in DOMAIN dir THEN dir
                ELSE dir @@ (path :> [marker |-> NoFile, document |-> NoFile])
        marked == [made EXCEPT ![path].marker =
                    [status |-> "complete", text |-> << <<0, "1">> >>]]
    IN  CASE fail = "makedirs" -> dir
          [] fail = "marker" -> made
          [] fail = "open" -> marked
          [] fail = "write" ->
                [marked EXCEPT ![path].document =
                    [status |-> "partial", text |-> SubSeq(text, 1, cut)]]
          [] fail = "none" ->
                [marked EXCEPT ![path].document =
                    [status |-> "complete", text |-> text]]

----------------------------------------------------------------------------
(* generate_led.py __main__: one process run after another *)

Empty == <<>>

Returned(cs) == {[key |-> cs[i].key, value |-> cs[i].value] : i \in 1..Len(cs)}

CacheInit ==
    /\ cache_file = Empty
    /\ uuid_cache = Empty
    /\ pc = "start"
    /\ cfg = 1
    /\ next_id = 1
    /\ collisions = 0
    /\ loaded = Empty
    /\ returned = {}
    /\ calls = <<>>
    /\ out = Empty
    /\ written = <<>>
    /\ nloads = 0
    /\ nsaves = 0
    /\ past = <<>>
    /\ env \in {"faults", "repeats"}

\* common.py init_cache: the whole file, read when the module is loaded
init_cache(file) == file

\* common.py save_cache: the whole mapping, replacing the file
save_cache(file, cache) == cache

\* the process starting with an empty dict instead of the file's content
Load__empty_dict ==
    /\ pc = "start"
    /\ uuid_cache' = Empty
    /\ loaded' = init_cache(cache_file)
    /\ nloads' = nloads + 1
    /\ pc' = "pkg"
    /\ UNCHANGED <<cache_file, cfg, next_id, collisions, returned, calls, out,
                   written, nsaves, past, env>>

\* uuid_cache = init_cache(uuid_cache_file)
Load ==
    /\ pc = "start"
    /\ uuid_cache' = init_cache(cache_file)
    /\ loaded' = init_cache(cache_file)
    /\ nloads' = nloads + 1
    /\ pc' = "pkg"
    /\ UNCHANGED <<cache_file, cfg, next_id, collisions, returned, calls, out,
                   written, nsaves, past, env>>

\* __main__ with save_cache called before generate_dev
NextPc__save_early == IF cfg < NumConfigs THEN pc ELSE "save"

\* where __main__ goes after the step for config cfg of the loop at pc
NextPc == IF cfg < NumConfigs THEN pc ELSE IF pc = "pkg" THEN "dev" ELSE "save"
NextCfg == IF cfg < NumConfigs THEN cfg + 1 ELSE 1

\* a generation step that also saves the cache as it goes
Step__saves_cache(st, plan, category, text, id, fail, cut) ==
    /\ uuid_cache' = st.cache
    /\ calls' = st.calls
    /\ returned' = returned \cup Returned(st.calls)
    /\ next_id' = next_id + st.mints - Repeats(plan)
    /\ collisions' = collisions + Repeats(plan)
    /\ out' = serialize(out, <<category, id>>, text, fail, cut)
    /\ IF fail = "none"
       THEN /\ written' = Append(written,
                            [category |-> category, cfg |-> cfg, uuid |-> id,
                             text |-> text])
            /\ pc' = NextPc
            /\ cfg' = NextCfg
       ELSE /\ written' = written
            /\ pc' = "aborted"
            /\ cfg' = cfg
    /\ cache_file' = save_cache(cache_file, st.cache)
    /\ UNCHANGED <<loaded, nloads, nsaves, past, env>>

\* what a generation step that ends in serialize does to the process
Step(st, plan, category, text, id, fail, cut) ==
    /\ uuid_cache' = st.cache
    /\ calls' = st.calls
    /\ returned' = returned \cup Returned(st.calls)
    /\ next_id' = next_id + st.mints - Repeats(plan)
    /\ collisions' = collisions + Repeats(plan)
    /\ out' = serialize(out, <<category, id>>, text, fail, cut)
    /\ IF fail = "none"
       THEN /\ written' = Append(written,
                            [category |-> category, cfg |-> cfg, uuid |-> id,
                             text |-> text])
            /\ pc' = NextPc
            /\ cfg' = NextCfg
       ELSE /\ written' = written
            /\ pc' = "aborted"
            /\ cfg' = cfg
    /\ UNCHANGED <<cache_file, loaded, nloads, nsaves, past, env>>

\* generate_pkg, one config: build the package, then package.serialize
GeneratePkg ==
    /\ pc = "pkg"
    /\ \E m \in {generate_pkg(Start(uuid_cache, <<>>), Configs[cfg]).st.mints} :
         \E plan \in StepPlans(m), fail \in StepFailures :
           \E r \in {generate_pkg(Start(uuid_cache, Draws(plan, next_id)), Configs[cfg])} :
             \E text \in {Package__str__(r.package)} :
               \E cut \in (IF fail = "write" THEN {0, Len(text) - 1} ELSE {0}) :
                 Step(r.st, plan, "pkg", text, r.package.uuid, fail, cut)

\* generate_dev, one config: build the device, then device.serialize
GenerateDev ==
    /\ pc = "dev"
    /\ \E m \in {generate_dev(Start(uuid_cache, <<>>), Configs[cfg]).st.mints} :
         \E plan \in StepPlans(m), fail \in StepFailures :
           \E r \in {generate_dev(Start(uuid_cache, Draws(plan, next_id)), Configs[cfg])} :
             \E text \in {Device__str__(r.device)} :
               \E cut \in (IF fail = "write" THEN {0, Len(text) - 1} ELSE {0}) :
                 Step(r.st, plan, "dev", text, r.device.uuid, fail, cut)

\* save_cache(uuid_cache_file, uuid_cache), the last statement of __main__
SaveCache ==
    /\ pc = "save"
    /\ \E fail \in {f \in BOOLEAN : f => env = "faults"} :
         IF fail
         THEN /\ pc' = "aborted"
              /\ UNCHANGED <<cache_file, nsaves>>
         ELSE /\ pc' = "done"
              /\ cache_file' = save_cache(cache_file, uuid_cache)
              /\ nsaves' = nsaves + 1
    /\ UNCHANGED <<uuid_cache, cfg, next_id, collisions, loaded, returned, calls,
                   out, written, nloads, past, env>>

\* the operator starts the script again: a new process, nothing in memory
NewRun ==
    /\ pc \in {"done", "aborted"}
    /\ Len(past) + 1 < MaxRuns
    /\ past' = Append(past,
                 [loaded |-> loaded, returned |-> returned, written |-> written,
                  saved |-> nsaves > 0, file |-> cache_file])
    /\ pc' = "start"
    /\ cfg' = 1
    /\ uuid_cache' = Empty
    /\ loaded' = Empty
    /\ returned' = {}
    /\ calls' = <<>>
    /\ written' = <<>>
    /\ nloads' = 0
    /\ nsaves' = 0
    /\ UNCHANGED <<cache_file, next_id, collisions, out, env>>

----------------------------------------------------------------------------
(* A caller building a Package tree and rendering it *)

Uuids == 1..MaxUuid

Names == {<<"a">>, <<"a", "b">>}

PackagePads == {[uuid |-> u, name |-> <<"a">>] : u \in Uuids}

Package3DModels == {[uuid |-> u, name |-> n] : u \in Uuids, n \in Names}

Approvals == {<<"a">>, <<"a", "b">>, <<"b">>}

Footprints == {Footprint(u, "default") : u \in Uuids}

Footprint3DModels == {[uuid |-> u] : u \in Uuids}

Vertices == << [position |-> 0, angle |-> 0], [position |-> 1, angle |-> 90] >>

\* the vertices of a hole as a caller may supply them: in either order
VertexLists == {Vertices, <<Vertices[2], Vertices[1]>>}

FootprintPads ==
    {[uuid |-> u, position |-> 0, package_pad |-> u,
      holes |-> << [uuid |-> u, vertices |-> vs] >>] :
        u \in Uuids, vs \in VertexLists}

Polygons == {[uuid |-> u, vertices |-> Vertices] : u \in {1}}

Circles == {[uuid |-> u] : u \in {1}}

StrokeTexts == {[uuid |-> u, value |-> "NAME"] : u \in {1}}

\* Package.add_pad skipping a pad that is already in the list
Package_add_pad__dedup(self, pad) ==
    IF \E i \in 1..Len(self.pads) : self.pads[i] = pad
    THEN self
    ELSE [self EXCEPT !.pads = Append(@, pad)]

\* Package.add_pad
Package_add_pad(self, pad) == [self EXCEPT !.pads = Append(@, pad)]

\* Package.add_footprint
Package_add_footprint(self, footprint) ==
    [self EXCEPT !.footprints = Append(@, footprint)]

\* Package.add_3d_model
Package_add_3d_model(self, model) == [self EXCEPT !.models_3d = Append(@, model)]

\* Package.add_approval
Package_add_approval(self, approval) ==
    [self EXCEPT !.approvals = Append(@, approval)]

\* Footprint.add_pad
Footprint_add_pad(self, pad) == [self EXCEPT !.pads = Append(@, pad)]

\* Footprint.add_3d_model
Footprint_add_3d_model(self, model) == [self EXCEPT !.models_3d = Append(@, model)]

\* Footprint.add_polygon
Footprint_add_polygon(self, polygon) ==
    [self EXCEPT !.polygons = Append(@, polygon)]

\* Footprint.add_circle
Footprint_add_circle(self, circle) == [self EXCEPT !.circles = Append(@, circle)]

\* Footprint.add_text
Footprint_add_text(self, text) == [self EXCEPT !.texts = Append(@, text)]

TreeInit ==
    /\ tree = Package(1, "pkg", "author", "0.1", "created", "cat")
    /\ phase = "building"
    /\ rendered = <<>>
    /\ adds = 0

\* a caller's add_* call that leaves the package as p
Added(p) ==
    /\ phase = "building"
    /\ adds < MaxAdds
    /\ tree' = p
    /\ adds' = adds + 1
    /\ UNCHANGED <<phase, rendered, cacheVars, fnVars>>

AddPad == \E pad \in PackagePads : Added(Package_add_pad(tree, pad))

AddFootprint ==
    \E footprint \in Footprints : Added(Package_add_footprint(tree, footprint))

Add3DModel ==
    \E model \in Package3DModels : Added(Package_add_3d_model(tree, model))

AddApproval ==
    \E approval \in Approvals : Added(Package_add_approval(tree, approval))

\* a caller's add_* call on a footprint that is in the package
FootprintAddPad ==
    \E i \in 1..Len(tree.footprints), pad \in FootprintPads :
        Added([tree EXCEPT !.footprints[i] = Footprint_add_pad(@, pad)])

FootprintAdd3DModel ==
    \E i \in 1..Len(tree.footprints), model \in Footprint3DModels :
        Added([tree EXCEPT !.footprints[i] = Footprint_add_3d_model(@, model)])

FootprintAddPolygon ==
    \E i \in 1..Len(tree.footprints), polygon \in Polygons :
        Added([tree EXCEPT !.footprints[i] = Footprint_add_polygon(@, polygon)])

FootprintAddCircle ==
    \E i \in 1..Len(tree.footprints), circle \in Circles :
        Added([tree EXCEPT !.footprints[i] = Footprint_add_circle(@, circle)])

FootprintAddText ==
    \E i \in 1..Len(tree.footprints), text \in StrokeTexts :
        Added([tree EXCEPT !.footprints[i] = Footprint_add_text(@, text)])

\* str(package) with the approvals sorted in place: self.approvals.sort()
Render__sorts_in_place ==
    /\ rendered' = Package__str__(tree)
    /\ phase' = "rendered"
    /\ tree' = [tree EXCEPT !.approvals = sorted("str", @)]
    /\ UNCHANGED <<adds, cacheVars, fnVars>>

\* str(package), as Package.serialize takes it; it may be taken again
Render ==
    /\ rendered' = Package__str__(tree)
    /\ phase' = "rendered"
    /\ UNCHANGED <<tree, adds, cacheVars, fnVars>>

----------------------------------------------------------------------------
(* A caller applying one of the functions to arguments of its choice *)

\* no function is being applied
FnIdle ==
    /\ fn_pc = "idle"
    /\ fn_in = <<>>
    /\ fn_out = <<>>

\* the process and the tree at rest
Rest ==
    /\ CacheInit
    /\ env = "faults"
    /\ TreeInit

\* the function returned result
Applied(result) ==
    /\ fn_pc = "input"
    /\ fn_pc' = "applied"
    /\ fn_out' = result
    /\ UNCHANGED <<fn_in, cacheVars, treeVars>>

Operands == {"a", "b", "c"}

\* three sibling 3D models of one class
CompareInit ==
    /\ Rest
    /\ fn_pc = "input"
    /\ fn_out = <<>>
    /\ \/ fn_in \in {[cls |-> "Package3DModel", a |-> x, b |-> y, c |-> z] :
                        x \in Package3DModels, y \in Package3DModels,
                        z \in Package3DModels}
       \/ fn_in \in {[cls |-> "Footprint3DModel", a |-> x, b |-> y, c |-> z] :
                        x \in Footprint3DModels, y \in Footprint3DModels,
                        z \in Footprint3DModels}

\* x < y and x == y for every two of the three Package3DModels
ComparePackage3DModels ==
    /\ fn_in.cls = "Package3DModel"
    /\ Applied([lt |-> [x \in Operands, y \in Operands |->
                          Package3DModel__lt__(fn_in[x], fn_in[y])],
                eq |-> [x \in Operands, y \in Operands |->
                          Package3DModel__eq__(fn_in[x], fn_in[y])]])

\* x < y and x == y for every two of the three Footprint3DModels
CompareFootprint3DModels ==
    /\ fn_in.cls = "Footprint3DModel"
    /\ Applied([lt |-> [x \in Operands, y \in Operands |->
                          Footprint3DModel__lt__(fn_in[x], fn_in[y])],
                eq |-> [x \in Operands, y \in Operands |->
                          Footprint3DModel__eq__(fn_in[x], fn_in[y])]])

----------------------------------------------------------------------------
(* generate_connectors.py: pad positions.  Lengths are integers, in units of *)
(* a ten-thousandth of a millimetre.                                         *)

min_pads == 1

max_pads == 40

\* 2.54 mm
spacing == 25400

\* units in a hundredth of a millimetre
Hundredth == 100

\* round(v, 2): the nearest hundredth, the even one of two equally near
round2(v) ==
    LET down == (v \div Hundredth) * Hundredth
        rest == v - down
    IN  IF 2 * rest < Hundredth THEN down
        ELSE IF 2 * rest > Hundredth THEN down + Hundredth
        ELSE IF (v \div Hundredth) % 2 = 0 THEN down ELSE down + Hundredth

\* get_y without the half spacing that centres an even number of pins
get_y__no_offset(pin_number, pin_count, spacing_) ==
    LET mid == (pin_count + 1) \div 2
    IN  round2(pin_number * spacing_ - mid * spacing_)

\* get_y
get_y(pin_number, pin_count, spacing_) ==
    LET mid == (pin_count + 1) \div 2
        even == pin_count % 2 = 0
        offset == IF even THEN spacing_ \div 2 ELSE 0
    IN  round2(pin_number * spacing_ - mid * spacing_ - offset)

\* generate: a pin count i of the loop and one of its pins j
GetYInit ==
    /\ Rest
    /\ fn_pc = "input"
    /\ fn_out = <<>>
    /\ fn_in \in {[pin_number |-> j, pin_count |-> i] :
                    i \in min_pads..max_pads, j \in 1..max_pads}
    /\ fn_in.pin_number <= fn_in.pin_count

\* generate: y = get_y(j, i, spacing)
GetY == Applied(get_y(fn_in.pin_number, fn_in.pin_count, spacing))

----------------------------------------------------------------------------
(* A caller of generate_pkg and generate_dev, in either order *)

\* the keys generate_pkg and generate_dev both resolve for a config, and the
\* device's own
SharedKeys(config) ==
    << uuid_key(s_pkg, config.pkg_name, s_pkg),
       uuid_key(s_pkg, config.pkg_name, s_pad_a),
       uuid_key(s_pkg, config.pkg_name, s_pad_c),
       uuid_key(s_dev, config.dev_name, s_dev) >>

\* a cache an earlier run left: some of the keys, with Identifiers of that run
\* (negative, to tell them from the ones minted now)
EarlierCaches(config) ==
    LET keys == SharedKeys(config)
    IN  {[k \in {keys[i] : i \in held} |->
            -(CHOOSE i \in held : keys[i] = k)] : held \in SUBSET (1..Len(keys))}

GenerateInit ==
    /\ Rest
    /\ fn_pc = "input"
    /\ fn_out = <<>>
    /\ \E c \in 1..Len(Configs) :
         fn_in \in {[config |-> Configs[c], cache |-> cache, first |-> first] :
                        cache \in EarlierCaches(Configs[c]),
                        first \in {"pkg", "dev"}}

\* the state the two generators start from: uuid4 yields 1, 2, ...
GenerateStart ==
    LET dry == generate_dev(generate_pkg(Start(fn_in.cache, <<>>), fn_in.config).st,
                            fn_in.config).st
    IN  Start(fn_in.cache, Draws([j \in 1..dry.mints |-> 0], 1))

\* generate_pkg, then generate_dev
GeneratePkgFirst ==
    /\ fn_in.first = "pkg"
    /\ \E p \in {generate_pkg(GenerateStart, fn_in.config)} :
         \E d \in {generate_dev(p.st, fn_in.config)} :
            Applied([package |-> p.package, device |-> d.device, cache |-> d.st.cache])

\* generate_dev, then generate_pkg
GenerateDevFirst ==
    /\ fn_in.first = "dev"
    /\ \E d \in {generate_dev(GenerateStart, fn_in.config)} :
         \E p \in {generate_pkg(d.st, fn_in.config)} :
            Applied([package |-> p.package, device |-> d.device, cache |-> p.st.cache])

----------------------------------------------------------------------------
(* generate_connectors.py: uuid().  Its cache is a dict of its own, filled   *)
(* from uuid_cache_connectors.csv.                                           *)

\* the default of the parameter identifier
None == <<"None">>

Digit == <<"0", "1", "2", "3", "4", "5", "6", "7", "8", "9">>

\* str(n) as format() writes a pin number: one or two digits
str_int(n) ==
    IF n < 10 THEN <<Digit[n + 1]>>
    ELSE <<Digit[(n \div 10) + 1], Digit[(n % 10) + 1]>>

\* the key generate_connectors.uuid() builds from its arguments
connectors_uuid_key(typ, pin_number, identifier) ==
    IF identifier # None /\ identifier # <<>>
    THEN replace(lower(typ \o <<"-", "1", "x">> \o str_int(pin_number)
                       \o <<"-">> \o identifier), " ", "~")
    ELSE replace(lower(typ \o <<"-", "1", "x">> \o str_int(pin_number)), " ", "~")

\* generate_connectors.uuid()
connectors_uuid(cache, typ, pin_number, identifier, uuid4) ==
    LET key == connectors_uuid_key(typ, pin_number, identifier)
        miss == key \notin DOMAIN cache
        after == IF miss THEN cache @@ (key :> uuid4) ELSE cache
    IN  [cache |-> after, value |-> after[key], minted |-> miss]

----------------------------------------------------------------------------
(* A caller resolving two keys, one after the other, on an empty cache *)

\* the strings over an alphabet, of length 1 and 2
Strings(alphabet) ==
    {<<c>> : c \in alphabet} \cup {<<c, d>> : c \in alphabet, d \in alphabet}

Categories == {<<"p">>, <<"P">>}

FullNames == Strings({"L", "l", " ", "~"})

Identifiers == {<<"a">>, <<"A">>}

Triples ==
    {[category |-> c, full_name |-> n, identifier |-> i] :
        c \in Categories, n \in FullNames, i \in Identifiers}

PinNumbers == {min_pads, 10, max_pads}

OptionalIdentifiers == {None, <<>>, <<"a">>, <<"A">>, <<" ">>, <<"~">>}

ResolveInit ==
    /\ Rest
    /\ fn_pc = "input"
    /\ fn_out = <<>>
    /\ \/ fn_in \in {[generator |-> "led", a |-> x, b |-> y] :
                        x \in Triples, y \in Triples}
       \/ fn_in \in {[generator |-> "connectors", typ |-> t, pin_number |-> n,
                       a |-> x, b |-> y] :
                        t \in Categories, n \in PinNumbers,
                        x \in OptionalIdentifiers, y \in OptionalIdentifiers}

\* generate_led: uuid(a), then uuid(b); uuid4 yields 1, then 2
ResolveLed ==
    /\ fn_in.generator = "led"
    /\ \E r1 \in {uuid(Empty, fn_in.a.category, fn_in.a.full_name,
                         fn_in.a.identifier, 1)} :
         \E r2 \in {uuid(r1.cache, fn_in.b.category, fn_in.b.full_name,
                           fn_in.b.identifier, 2)} :
            Applied([a |-> r1.value, b |-> r2.value, cache |-> r2.cache])

\* generate_connectors: uuid(typ, pin_number, a), then uuid(typ, pin_number, b)
ResolveConnectors ==
    /\ fn_in.generator = "connectors"
    /\ \E r1 \in {connectors_uuid(Empty, fn_in.typ, fn_in.pin_number, fn_in.a, 1)} :
         \E r2 \in {connectors_uuid(r1.cache, fn_in.typ, fn_in.pin_number,
                                      fn_in.b, 2)} :
            Applied([a |-> r1.value, b |-> r2.value, cache |-> r2.cache])

----------------------------------------------------------------------------
(* Specifications *)

\* the generator process, run after run
Init == CacheInit /\ TreeInit /\ FnIdle

Next ==
    \/ Load /\ UNCHANGED <<treeVars, fnVars>>
    \/ GeneratePkg /\ UNCHANGED <<treeVars, fnVars>>
    \/ GenerateDev /\ UNCHANGED <<treeVars, fnVars>>
    \/ SaveCache /\ UNCHANGED <<treeVars, fnVars>>
    \/ NewRun /\ UNCHANGED <<treeVars, fnVars>>

Spec == Init /\ [][Next]_vars

\* a caller of entities/package.py
TreeNext ==
    \/ AddPad
    \/ AddFootprint
    \/ Add3DModel
    \/ AddApproval
    \/ FootprintAddPad
    \/ FootprintAdd3DModel
    \/ FootprintAddPolygon
    \/ FootprintAddCircle
    \/ FootprintAddText
    \/ Render

SpecTree == Init /\ [][TreeNext]_vars

\* a caller comparing 3D models
CompareNext == ComparePackage3DModels \/ CompareFootprint3DModels

SpecCompare == CompareInit /\ [][CompareNext]_vars

\* generate_connectors.py placing the pads of a socket strip
GetYNext == GetY

SpecGetY == GetYInit /\ [][GetYNext]_vars

\* a caller of the two LED generators
GenerateNext == GeneratePkgFirst \/ GenerateDevFirst

SpecGenerate == GenerateInit /\ [][GenerateNext]_vars

\* a caller of the two uuid() functions
ResolveNext == ResolveLed \/ ResolveConnectors

SpecResolve == ResolveInit /\ [][ResolveNext]_vars

----------------------------------------------------------------------------
(* Properties of the UUID cache *)

Injective(f) == \A k1, k2 \in DOMAIN f : k1 # k2 => f[k1] # f[k2]

Extends(g, f) == \A k \in DOMAIN f : k \in DOMAIN g /\ g[k] = f[k]

\* the Identifiers a document names
DocIds(text) ==
    {text[j][3] : j \in {i \in 1..Len(text) :
        text[i][2] \in {"librepcb_package", "librepcb_device", "pad", "footprint",
                        "hole", "package_pad", "package"}}}

\* C1: every call of uuid() with a key that is in the cache returns the stored
\* Identifier and leaves the cache as it is; every call with a key that is not
\* mints an Identifier (uuid4's), adds exactly the entry key -> that Identifier,
\* and returns it.
C1_Resolve ==
    \A i \in 1..Len(calls) :
        LET c == calls[i]
        IN  IF c.key \in DOMAIN c.before
            THEN /\ ~c.minted
                 /\ c.value = c.before[c.key]
                 /\ c.after = c.before
            ELSE /\ c.minted
                 /\ c.value = c.uuid4
                 /\ DOMAIN c.after = DOMAIN c.before \cup {c.key}
                 /\ c.after[c.key] = c.value
                 /\ \A k \in DOMAIN c.before : c.after[k] = c.before[k]

\* a step has just made calls of both kinds, on a cache that held entries
C1_Witness ==
    /\ \E i \in 1..Len(calls) : calls[i].minted /\ calls[i].before # Empty
    /\ \E i \in 1..Len(calls) : ~calls[i].minted

\* C2: within one run the cache only grows: each call starts from the cache the
\* call before it left, every entry a call finds it leaves in place, what the
\* process holds is what the last call left, and every value uuid() has
\* returned for a key in this run is the one the cache holds for it.
C2_GrowsOnly ==
    /\ [](/\ \A i \in 1..Len(calls) : Extends(calls[i].after, calls[i].before)
          /\ \A i \in 1..(Len(calls) - 1) : calls[i + 1].before = calls[i].after
          /\ calls # <<>> => uuid_cache = calls[Len(calls)].after
          /\ \A p \in returned :
                p.key \in DOMAIN uuid_cache /\ uuid_cache[p.key] = p.value)
    /\ [][pc' # "start" => Extends(uuid_cache', uuid_cache)]_vars

\* a key has been resolved in an earlier step of the run and again in the last
C2_Witness ==
    /\ pc = "save"
    /\ \E i \in 1..Len(calls) :
         /\ ~calls[i].minted
         /\ calls[1].before # Empty
         /\ calls[i].key \in DOMAIN calls[1].before

\* C3 as claimed: any two runs that loaded the same persisted cache got the same
\* Identifier for every key, and wrote the same documents.
C3_AnyTwoRuns ==
    \A r \in 1..Len(past) :
        past[r].loaded = loaded =>
            /\ \A p \in past[r].returned, q \in returned :
                   p.key = q.key => p.value = q.value
            /\ \A i \in 1..Len(past[r].written), j \in 1..Len(written) :
                   (/\ past[r].written[i].category = written[j].category
                    /\ past[r].written[i].cfg = written[j].cfg)
                   => past[r].written[i].text = written[j].text

\* C3, amended: a key that is in the persisted cache when a run loads it
\* resolves to the persisted Identifier; so a run after one that reached
\* save_cache gets the Identifiers that run got, and writes the documents it
\* wrote.
C3_AfterSavedRun ==
    /\ \A q \in returned : q.key \in DOMAIN loaded => q.value = loaded[q.key]
    /\ \A r \in 1..Len(past) :
        past[r].saved =>
            /\ \A p \in past[r].returned, q \in returned :
                   p.key = q.key => p.value = q.value
            /\ \A i \in 1..Len(past[r].written), j \in 1..Len(written) :
                   (/\ past[r].written[i].category = written[j].category
                    /\ past[r].written[i].cfg = written[j].cfg)
                   => /\ past[r].written[i].text = written[j].text
                      /\ past[r].written[i].uuid = written[j].uuid

\* a second run has finished after a first one that saved its cache
C3_Witness ==
    /\ pc = "done"
    /\ Len(past) >= 1
    /\ past[Len(past)].saved
    /\ past[Len(past)].returned # {}
    /\ Len(written) = 2 * NumConfigs

\* C4 as claimed: a minted Identifier differs from every Identifier in the
\* cache, and no two keys of the cache share an Identifier.
C4_Injective ==
    /\ \A i \in 1..Len(calls) :
         calls[i].minted => calls[i].value \notin Range(calls[i].before)
    /\ Injective(uuid_cache)
    /\ Injective(cache_file)

\* C4, amended: as long as uuid4 has not repeated an Identifier of the cache,
\* a minted Identifier differs from every Identifier in the cache and no two
\* keys share one.
C4_InjectiveUnlessRepeat == collisions = 0 => C4_Injective

\* a run has saved a cache with several entries and uuid4 has not repeated
C4_Witness ==
    /\ collisions = 0
    /\ env = "repeats"
    /\ pc = "done"
    /\ Cardinality(DOMAIN cache_file) > 2

\* C5: a run that is interrupted leaves the cache file as it was loaded.
C5_AbortKeepsFile == pc = "aborted" => cache_file = loaded

\* a run was interrupted after it had minted Identifiers
C5_Witness ==
    /\ pc = "aborted"
    /\ \E k \in DOMAIN uuid_cache : k \notin DOMAIN loaded

\* C6: the cache is loaded once, before any Identifier is resolved, and saved
\* once, after every document of the run is written; the saved file holds
\* every loaded entry, every Identifier returned in the run and every
\* Identifier written to a document of the run.
C6_LoadOnceSaveOnce ==
    /\ nloads <= 1 /\ nsaves <= 1
    /\ (returned # {} \/ calls # <<>>) => nloads = 1
    /\ nsaves = 1 => pc = "done" /\ Len(written) = 2 * NumConfigs
    /\ pc = "done" =>
         /\ nloads = 1 /\ nsaves = 1
         /\ Extends(cache_file, loaded)
         /\ \A p \in returned :
              p.key \in DOMAIN cache_file /\ cache_file[p.key] = p.value
         /\ \A i \in 1..Len(written) :
              DocIds(written[i].text) \subseteq Range(cache_file)

\* a run that loaded entries and minted none, and one that minted, completed
C6_Witness ==
    /\ pc = "done"
    /\ loaded = Empty
    /\ cache_file # Empty
    /\ Len(written) = 2 * NumConfigs

----------------------------------------------------------------------------
(* Properties of the rendered tree *)

\* the lines of a rendered text at one depth with one tag, in text order
Lines(text, indent, tag) ==
    SelectSeq(text, LAMBDA l : l[1] = indent /\ l[2] = tag)

\* every list holding the elements of s, each as often as s holds it
Perms(s) ==
    LET n == Len(s)
        bijections == {pi \in [1..n -> 1..n] :
                         \A i, j \in 1..n : i # j => pi[i] # pi[j]}
    IN  {[i \in 1..n |-> s[pi[i]]] : pi \in bijections}

\* the footprint lists that differ from fs only in the order in which each
\* footprint's 3D-model references were added
FootprintEquivalents(fs) ==
    LET f[i \in 0..Len(fs)] ==
            IF i = 0 THEN {<<>>}
            ELSE {Append(front, [fs[i] EXCEPT !.models_3d = ms]) :
                    front \in f[i - 1], ms \in Perms(fs[i].models_3d)}
    IN  f[Len(fs)]

\* the trees logically equivalent to p: same metadata, same footprint
\* sequence, same children in every unordered collection
Equivalents(p) ==
    {[p EXCEPT !.pads = ps, !.models_3d = ms, !.approvals = as, !.footprints = fs] :
        ps \in Perms(p.pads), ms \in Perms(p.models_3d),
        as \in Perms(p.approvals), fs \in FootprintEquivalents(p.footprints)}

\* C7: a rendered tree's text is the text of every tree logically equivalent
\* to it, whatever order the unordered children were added in.
C7_Deterministic ==
    phase = "rendered" => \A q \in Equivalents(tree) : Package__str__(q) = rendered

\* C8: the package-level 3D-model lines of a rendered Package ascend by
\* Identifier, and by name among equal Identifiers.
C8_ModelsSorted ==
    phase = "rendered" =>
        LET ls == Lines(rendered, 1, "3d_model")
        IN  \A i \in 1..(Len(ls) - 1) :
                \/ ls[i][3] < ls[i + 1][3]
                \/ ls[i][3] = ls[i + 1][3] /\ ~str_lt(ls[i + 1][4], ls[i][4])

\* C9: in a rendered Package the 3D-model lines of each footprint are that
\* footprint's references, each once per add_3d_model call, ascending by
\* Identifier.
C9_FootprintModelsSorted ==
    phase = "rendered" =>
        LET ls == Lines(rendered, 2, "3d_model")
            fs == tree.footprints
            end[i \in 0..Len(fs)] ==
                IF i = 0 THEN 0 ELSE end[i - 1] + Len(fs[i].models_3d)
        IN  /\ Len(ls) = end[Len(fs)]
            /\ \A i \in 1..Len(fs) :
                 LET seg == SubSeq(ls, end[i - 1] + 1, end[i])
                 IN  /\ \A j \in 1..(Len(seg) - 1) : seg[j][3] <= seg[j + 1][3]
                     /\ \A u \in Uuids :
                          Cardinality({j \in 1..Len(seg) : seg[j][3] = u})
                          = Cardinality({j \in 1..Len(fs[i].models_3d) :
                                           fs[i].models_3d[j].uuid = u})

\* a footprint whose references were added in descending order was rendered
C9_Witness ==
    /\ phase = "rendered"
    /\ \E i \in 1..Len(tree.footprints) :
         LET ms == tree.footprints[i].models_3d
         IN  Len(ms) >= 2 /\ ms[1].uuid > ms[2].uuid

\* C10: the approval lines of a rendered Package are its approvals, each once
\* per add_approval call, ascending; a Package without approvals has none.
C10_ApprovalsSorted ==
    phase = "rendered" =>
        LET ls == Lines(rendered, 1, "str")
        IN  /\ Len(ls) = Len(tree.approvals)
            /\ \A j \in 1..(Len(ls) - 1) : ~str_lt(ls[j + 1][3], ls[j][3])
            /\ \A a \in Approvals :
                 Cardinality({j \in 1..Len(ls) : ls[j][3] = a})
                 = Cardinality({j \in 1..Len(tree.approvals) : tree.approvals[j] = a})
            /\ tree.approvals = <<>> => \A j \in 1..Len(rendered) : rendered[j][2] # "str"

\* approvals added in descending order, one a prefix of another, were rendered
C10_Witness ==
    /\ phase = "rendered"
    /\ Len(tree.approvals) = 3
    /\ tree.approvals[1] = <<"b">>
    /\ tree.approvals[2] = <<"a", "b">>
    /\ tree.approvals[3] = <<"a">>

\* the concatenation of a list of lists
Concat(ss) ==
    LET f[i \in 0..Len(ss)] == IF i = 0 THEN <<>> ELSE f[i - 1] \o ss[i]
    IN  f[Len(ss)]

\* the pads of all footprints of p, footprint after footprint
AllFootprintPads(p) ==
    Concat([i \in 1..Len(p.footprints) |-> p.footprints[i].pads])

\* the vertices of all holes of all footprint pads of p, in tree order
AllHoleVertices(p) ==
    LET pads == AllFootprintPads(p)
        holes == Concat([i \in 1..Len(pads) |-> pads[i].holes])
    IN  Concat([i \in 1..Len(holes) |-> holes[i].vertices])

\* C11: in a rendered Package the footprint lines follow the order of
\* add_footprint, the pad lines of the footprints the order of
\* Footprint.add_pad, and the vertex lines of the holes the order in which the
\* vertices were supplied.
C11_InsertionOrder ==
    phase = "rendered" =>
        LET fl == Lines(rendered, 1, "footprint")
            pl == Lines(rendered, 2, "pad")
            vl == Lines(rendered, 4, "vertex")
            pads == AllFootprintPads(tree)
            vs == AllHoleVertices(tree)
        IN  /\ Len(fl) = Len(tree.footprints)
            /\ \A i \in 1..Len(fl) : fl[i][3] = tree.footprints[i].uuid
            /\ Len(pl) = Len(pads)
            /\ \A i \in 1..Len(pl) : pl[i][3] = pads[i].uuid
            /\ Len(vl) = Len(vs)
            /\ \A i \in 1..Len(vl) :
                 vl[i][3] = vs[i].position /\ vl[i][4] = vs[i].angle

\* footprints added in descending order of Identifier, the second with two pads
\* in descending order, the first of them with its vertices in descending order
C11_Witness ==
    /\ phase = "rendered"
    /\ Len(tree.footprints) = 2
    /\ tree.footprints[1].uuid > tree.footprints[2].uuid
    /\ Len(tree.footprints[2].pads) = 2
    /\ tree.footprints[2].pads[1].uuid > tree.footprints[2].pads[2].uuid
    /\ tree.footprints[2].pads[1].holes[1].vertices[1].position
         > tree.footprints[2].pads[1].holes[1].vertices[2].position

\* list new is list old with one element, from pool, appended
Grown(old, new, pool) ==
    /\ Len(new) = Len(old) + 1
    /\ SubSeq(new, 1, Len(old)) = old
    /\ new[Len(new)] \in pool

\* record new is record old but for field k, which grew by an element of pool
FieldGrown(old, new, k, pool) ==
    /\ DOMAIN new = DOMAIN old
    /\ Grown(old[k], new[k], pool)
    /\ \A f \in DOMAIN old \ {k} : new[f] = old[f]

\* one footprint of the package changed as FieldGrown says, nothing else did
FootprintGrown(k, pool) ==
    /\ DOMAIN tree' = DOMAIN tree
    /\ \A f \in DOMAIN tree \ {"footprints"} : tree'[f] = tree[f]
    /\ Len(tree'.footprints) = Len(tree.footprints)
    /\ \E i \in 1..Len(tree.footprints) :
         /\ FieldGrown(tree.footprints[i], tree'.footprints[i], k, pool)
         /\ \A j \in 1..Len(tree.footprints) :
              j # i => tree'.footprints[j] = tree.footprints[j]

\* C12: every add_* call appends its argument to the list of its own child
\* kind, also when the list already holds it, and leaves every other list and
\* every metadata field of the Package and of its Footprints as they were.
C12_AppendsOnly ==
    [][/\ AddPad => FieldGrown(tree, tree', "pads", PackagePads)
       /\ AddFootprint => FieldGrown(tree, tree', "footprints", Footprints)
       /\ Add3DModel => FieldGrown(tree, tree', "models_3d", Package3DModels)
       /\ AddApproval => FieldGrown(tree, tree', "approvals", Approvals)
       /\ FootprintAddPad => FootprintGrown("pads", FootprintPads)
       /\ FootprintAdd3DModel => FootprintGrown("models_3d", Footprint3DModels)
       /\ FootprintAddPolygon => FootprintGrown("polygons", Polygons)
       /\ FootprintAddCircle => FootprintGrown("circles", Circles)
       /\ FootprintAddText => FootprintGrown("texts", StrokeTexts)]_vars

\* the same package pad was added twice, and a footprint pad was added that
\* refers to a package pad the package does not have
C12_Witness ==
    /\ Len(tree.pads) = 2
    /\ tree.pads[1] = tree.pads[2]
    /\ \E i \in 1..Len(tree.footprints) :
         \E j \in 1..Len(tree.footprints[i].pads) :
            \A k \in 1..Len(tree.pads) :
                tree.pads[k].uuid # tree.footprints[i].pads[j].package_pad

\* the lines of a package document that open an entity with an Identifier of
\* its own: the package, its pads, its footprints, their pads, their holes
EntityLines(text) ==
    {i \in 1..Len(text) :
        <<text[i][1], text[i][2]>> \in
            {<<0, "librepcb_package">>, <<1, "pad">>, <<1, "footprint">>,
             <<2, "pad">>, <<3, "hole">>}}

\* C13: in every package document written, no two entities carry the same
\* Identifier (unless uuid4 itself repeated one), and every key resolved in
\* the run resolved to one Identifier.
C13_DistinctEntities ==
    /\ \A p, q \in returned : p.key = q.key => p.value = q.value
    /\ collisions = 0 =>
         \A d \in 1..Len(written) :
            written[d].category = "pkg" =>
                \A i, j \in EntityLines(written[d].text) :
                    i # j => written[d].text[i][3] # written[d].text[j][3]

\* the directory serialize wrote document d of the current run into
DirOf(d) == <<d.category, d.uuid>>

\* every serialize call of the run that returned left a directory named by the
\* entity's Identifier that holds a marker file and a document file
ReturnedHasBoth ==
    \A d \in 1..Len(written) :
        /\ DirOf(written[d]) \in DOMAIN out
        /\ out[DirOf(written[d])].marker.status = "complete"
        /\ out[DirOf(written[d])].document.status # "absent"

\* C14: after serialize returns, the directory named by the Identifier holds
\* the marker file and the document file, and no Identifier-named directory
\* holds one of the two files without the other.
C14_MarkerAndDocument ==
    /\ ReturnedHasBoth
    /\ \A dir \in DOMAIN out :
         (out[dir].marker.status = "absent") = (out[dir].document.status = "absent")

\* C15: no document file on disk is ever a part of a document: it is absent
\* or holds a complete document.
C15_NoPartialDocument ==
    \A dir \in DOMAIN out : out[dir].document.status # "partial"

\* C16: rendering leaves the tree as it is, lists in insertion order included,
\* and rendering a tree that was rendered before yields the same text.
C16_RenderPure ==
    [][Render => /\ tree' = tree
                 /\ rendered' = Package__str__(tree')
                 /\ phase = "rendered" => rendered' = rendered]_vars

\* a tree whose approvals were added in descending order was rendered and
\* still holds them in that order
C16_Witness ==
    /\ phase = "rendered"
    /\ Len(tree.footprints) >= 1
    /\ Len(tree.approvals) = 2
    /\ str_lt(tree.approvals[2], tree.approvals[1])
    /\ rendered = Package__str__(tree)

\* C17: on any three sibling 3D models, < is irreflexive and transitive, any
\* two models that are not == are comparable, at most one of a < b, b < a and
\* a == b holds, and a < b is the lexicographic order on (Identifier, name)
\* for Package3DModel and the order of the Identifiers for Footprint3DModel.
C17_StrictTotalOrder ==
    fn_pc = "applied" /\ fn_in.cls \in {"Package3DModel", "Footprint3DModel"} =>
        LET lt_ == fn_out.lt
            eq_ == fn_out.eq
        IN  /\ \A x \in Operands : ~lt_[x, x] /\ eq_[x, x]
            /\ \A x, y, z \in Operands : lt_[x, y] /\ lt_[y, z] => lt_[x, z]
            /\ \A x, y \in Operands :
                 /\ ~eq_[x, y] => lt_[x, y] \/ lt_[y, x]
                 /\ ~(lt_[x, y] /\ lt_[y, x])
                 /\ ~(lt_[x, y] /\ eq_[x, y])
                 /\ IF fn_in.cls = "Package3DModel"
                    THEN /\ eq_[x, y] = (/\ fn_in[x].uuid = fn_in[y].uuid
                                         /\ fn_in[x].name = fn_in[y].name)
                         /\ lt_[x, y] = (\/ fn_in[x].uuid < fn_in[y].uuid
                                         \/ /\ fn_in[x].uuid = fn_in[y].uuid
                                            /\ str_lt(fn_in[x].name, fn_in[y].name))
                    ELSE /\ eq_[x, y] = (fn_in[x].uuid = fn_in[y].uuid)
                         /\ lt_[x, y] = (fn_in[x].uuid < fn_in[y].uuid)

\* compared: a Package3DModel with a smaller Identifier and a larger name than
\* the second, which has the Identifier of the third and a smaller name
C17_Witness ==
    /\ fn_pc = "applied"
    /\ fn_in.cls = "Package3DModel"
    /\ fn_in.a.uuid < fn_in.b.uuid
    /\ str_lt(fn_in.b.name, fn_in.a.name)
    /\ fn_in.b.uuid = fn_in.c.uuid
    /\ str_lt(fn_in.b.name, fn_in.c.name)
    /\ fn_out.lt["a", "b"] /\ fn_out.lt["b", "c"] /\ fn_out.lt["a", "c"]

\* the pad offsets of a four-pin strip, in hundredths of a millimetre
FourPins == <<-381, -127, 127, 381>>

\* C18: the position of pin j of n is one spacing below that of pin j + 1 and
\* the negative of that of pin n + 1 - j; four pins are at -3.81, -1.27, 1.27
\* and 3.81 mm.
C18_Centered ==
    fn_pc = "applied" =>
        LET j == fn_in.pin_number
            n == fn_in.pin_count
        IN  /\ get_y(j + 1, n, spacing) - fn_out = spacing
            /\ fn_out = -get_y(n + 1 - j, n, spacing)
            /\ fn_out % Hundredth = 0
            /\ n = 4 => fn_out \div Hundredth = FourPins[j]

\* the last pin of the longest strip with an even pin count was placed
C18_Witness ==
    /\ fn_pc = "applied"
    /\ fn_in.pin_count = max_pads
    /\ fn_in.pin_number = max_pads
    /\ fn_out > 0

\* the place of a line among the lines of its parent: of a Package's lines
\* (indent 1) and of a Footprint's (indent 2), by tag
PackageRank ==
    [name |-> 1, description |-> 2, keywords |-> 3, author |-> 4, version |-> 5,
     created |-> 6, deprecated |-> 7, generated_by |-> 8, category |-> 9,
     assembly_type |-> 10, pad |-> 11, 3d_model |-> 12, footprint |-> 13,
     str |-> 14]

FootprintRank ==
    [name |-> 1, description |-> 2, 3d_position |-> 3, 3d_model |-> 4, pad |-> 5,
     polygon |-> 6, circle |-> 7, stroke_text |-> 8]

Rank(line) == IF line[1] = 1 THEN PackageRank[line[2]] ELSE FootprintRank[line[2]]

\* the lines of text that open a child of the Package, in text order
PackageChildren(text) ==
    SelectSeq(text, LAMBDA l : l[1] = 1 /\ l[2] # ")")

\* the lines of text that open a Footprint or a child of one, in text order:
\* the children of a Footprint are the lines that follow its opening line
FootprintChildren(text) ==
    SelectSeq(text, LAMBDA l : \/ l[1] = 1 /\ l[2] = "footprint"
                               \/ l[1] = 2 /\ l[2] # ")")

\* C19: a rendered Package opens with its Identifier and closes last; its
\* lines come as name, description, keywords, author, version, created,
\* deprecated, generated_by, categories, assembly type, pads, 3D models,
\* footprints, approvals, each metadata field once; every Footprint opens with
\* its Identifier, then name, description, 3D position and rotation, then its
\* 3D models, pads, polygons, circles, texts.
C19_GroupOrder ==
    phase = "rendered" =>
        /\ rendered[1] = <<0, "librepcb_package", tree.uuid>>
        /\ rendered[Len(rendered)] = <<0, ")">>
        /\ \A i \in 2..(Len(rendered) - 1) : rendered[i][1] >= 1
        /\ LET ls == PackageChildren(rendered)
           IN  \A i \in 1..(Len(ls) - 1) : Rank(ls[i]) <= Rank(ls[i + 1])
        /\ LET ls == FootprintChildren(rendered)
           IN  \A i \in 1..(Len(ls) - 1) :
                 (ls[i][1] = 2 /\ ls[i + 1][1] = 2) => Rank(ls[i]) <= Rank(ls[i + 1])
        /\ \A t \in {"name", "description", "keywords", "author", "version",
                     "created", "deprecated", "generated_by", "assembly_type"} :
             Len(Lines(rendered, 1, t)) = 1
        /\ Len(Lines(rendered, 1, "category")) = Len(tree.categories)
        /\ \A i \in 1..Len(rendered) :
             (rendered[i][1] = 1 /\ rendered[i][2] = "footprint") =>
                /\ rendered[i + 1][1] = 2 /\ rendered[i + 1][2] = "name"
                /\ rendered[i + 2][1] = 2 /\ rendered[i + 2][2] = "description"
                /\ rendered[i + 3][1] = 2 /\ rendered[i + 3][2] = "3d_position"

\* a rendered Package with an approval and a footprint that has a 3D model, a
\* pad and a text
C19_Witness ==
    /\ phase = "rendered"
    /\ Len(tree.approvals) = 1
    /\ Len(tree.footprints) = 1
    /\ Len(tree.footprints[1].models_3d) = 1
    /\ Len(tree.footprints[1].pads) = 1
    /\ adds = 4

\* C20: the Device names the Package's Identifier as its package and the
\* Identifiers of the Package's pads 'A' and 'C' as its pads, whichever
\* generator ran first and whatever the cache held before.
C20_DeviceNamesPackage ==
    fn_pc = "applied" =>
        /\ fn_out.device.package_uuid = fn_out.package.uuid
        /\ Len(fn_out.device.pads) = 2 /\ Len(fn_out.package.pads) = 2
        /\ fn_out.package.pads[1].name = <<"A">>
        /\ fn_out.package.pads[2].name = <<"C">>
        /\ fn_out.device.pads[1].pad_uuid = fn_out.package.pads[1].uuid
        /\ fn_out.device.pads[2].pad_uuid = fn_out.package.pads[2].uuid
        /\ \A i \in 1..Len(fn_out.package.footprints) :
             /\ fn_out.package.footprints[i].pads[1].package_pad
                  = fn_out.device.pads[1].pad_uuid
             /\ fn_out.package.footprints[i].pads[2].package_pad
                  = fn_out.device.pads[2].pad_uuid

\* generate_dev ran first, on a cache that held the Identifier of pad 'A' and
\* not that of the package or of pad 'C'
C20_Witness ==
    /\ fn_pc = "applied"
    /\ fn_in.first = "dev"
    /\ fn_out.package.pads[1].uuid < 0
    /\ fn_out.package.uuid > 0
    /\ fn_out.package.pads[2].uuid > 0

\* C21: in the Package generate_pkg builds for a config, every pad of every
\* footprint variant names as its package_pad the Identifier of a pad of the
\* Package.
C21_NoDanglingPad ==
    fn_pc = "applied" =>
        LET package == fn_out.package
        IN  /\ Len(package.footprints) = Len(Variants(fn_in.config))
            /\ \A i \in 1..Len(package.footprints) :
                 /\ Len(package.footprints[i].pads) = 2
                 /\ \A j \in 1..Len(package.footprints[i].pads) :
                      \E k \in 1..Len(package.pads) :
                         package.pads[k].uuid
                           = package.footprints[i].pads[j].package_pad

\* the Package of a large LED, with its five footprint variants, was built on
\* an empty cache
C21_Witness ==
    /\ fn_pc = "applied"
    /\ fn_in.cache = <<>>
    /\ fn_in.config.top_diameter = 5
    /\ Len(fn_out.package.footprints) = 5
    /\ Len(fn_out.package.pads) = 2

\* characters c and d are equal, or one letter in two cases, or ' ' and '~'
SameChar(c, d) ==
    \/ c = d
    \/ c \in DOMAIN LowerOf /\ LowerOf[c] = d
    \/ d \in DOMAIN LowerOf /\ LowerOf[d] = c
    \/ {c, d} = {" ", "~"}

\* strings s and t differ only in letter case or in ' ' against '~'
SameText(s, t) ==
    /\ Len(s) = Len(t)
    /\ \A i \in 1..Len(s) : SameChar(s[i], t[i])

\* the connector generator takes the sub-identifier x for absent
Absent(x) == x = None \/ x = <<>>

\* C22: two triples that differ only in letter case or in space against '~'
\* resolve to one Identifier; so do, in the connector generator, an empty and
\* a missing sub-identifier, and two sub-identifiers that differ only so.  The
\* cache keys hold no upper-case letter and no space.
C22_KeyNormalised ==
    fn_pc = "applied" =>
        /\ \A k \in DOMAIN fn_out.cache :
              \A i \in 1..Len(k) : k[i] \notin DOMAIN LowerOf /\ k[i] # " "
        /\ (/\ fn_in.generator = "led"
            /\ SameText(fn_in.a.category, fn_in.b.category)
            /\ SameText(fn_in.a.full_name, fn_in.b.full_name)
            /\ SameText(fn_in.a.identifier, fn_in.b.identifier))
           => fn_out.a = fn_out.b
        /\ fn_in.generator = "connectors" =>
              /\ (Absent(fn_in.a) /\ Absent(fn_in.b)) => fn_out.a = fn_out.b
              /\ (/\ ~Absent(fn_in.a) /\ ~Absent(fn_in.b)
                  /\ SameText(fn_in.a, fn_in.b)) => fn_out.a = fn_out.b

\* resolved: two different triples, one with upper-case letters and a space
\* where the other has lower-case letters and '~'
C22_Witness ==
    /\ fn_pc = "applied"
    /\ fn_in.generator = "led"
    /\ fn_in.a = [category |-> <<"P">>, full_name |-> <<"L", " ">>,
                  identifier |-> <<"A">>]
    /\ fn_in.b = [category |-> <<"p">>, full_name |-> <<"l", "~">>,
                  identifier |-> <<"a">>]
    /\ fn_out.a = fn_out.b

\* resolved in the connector generator: first no sub-identifier, then ''
ConnectorsAbsentResolved ==
    /\ fn_pc = "applied"
    /\ fn_in.generator = "connectors"
    /\ fn_in.a = None /\ fn_in.b = <<>>
    /\ fn_out.a = fn_out.b

====
